---------------------------- MODULE Spec2Model ----------------------------
(***************************************************************************)
(* A model of raggedy's diagram repair (src/src/raggedy/diagram.py).       *)
(*                                                                         *)
(* A character is a one-element token (a TLA+ string); a line is a         *)
(* sequence of characters; a text is a sequence of characters in which NL  *)
(* separates the lines.  The box-drawing characters are written as their   *)
(* code points ("u2502" is U+2502, the light vertical bar).  Sequences are *)
(* 1-based here and 0-based in the source: an index i of the source is     *)
(* i + 1 in the model, and fence_start = 0 stands for the source's -1.     *)
(***************************************************************************)
EXTENDS Integers, Sequences, FiniteSets, TLC

(* ------------------------------ characters ----------------------------- *)

LV  == "u2502"   \* U+2502 light vertical
LDR == "u250C"   \* U+250C light down and right (top-left corner)
LVR == "u251C"   \* U+251C light vertical and right (left tee)
LUR == "u2514"   \* U+2514 light up and right (bottom-left corner)
LDL == "u2510"   \* U+2510 light down and left (top-right corner)
LVL == "u2524"   \* U+2524 light vertical and left (right tee)
LUL == "u2518"   \* U+2518 light up and left (bottom-right corner)
LH  == "u2500"   \* U+2500 light horizontal
DH  == "u2550"   \* U+2550 double horizontal
LDH == "u252C"   \* U+252C light down and horizontal (top tee)
BT  == "u0060"   \* U+0060 grave accent (backtick)
TILDE == "~"
NL  == "\n"
SP  == " "

\* The characters str.strip(), str.lstrip(), str.rstrip() and str.split()
\* remove that can occur in a line (a line holds no "\n").
WHITESPACE == {" ", "\t", "\r"}

LEFT_BORDER_CHARS == {LV, LDR, LVR, LUR, "+", "|"}

RIGHT_BORDER(c) ==
    CASE c = LDR -> LDL
      [] c = LVR -> LVL
      [] c = LUR -> LUL
      [] c = LV  -> LV
      [] c = "+" -> "+"
      [] c = "|" -> "|"

HRULE_CHARS == {LH, "-", DH}

HRULE_LEFT == {LDR, LVR, LUR, "+"}

JUNCTION_CHARS ==
    {LDH, "u2534", "u253C", "u2566", "u2569", "u256C",
     "u2564", "u2567", "u256A", "u2530", "u2538"}

CODE_LANG_TAGS == {
    <<"p","y","t","h","o","n">>, <<"p","y">>, <<"j","a","v","a","s","c","r","i","p","t">>,
    <<"j","s">>, <<"t","y","p","e","s","c","r","i","p","t">>, <<"t","s">>, <<"r","u","s","t">>,
    <<"g","o">>, <<"j","a","v","a">>, <<"c">>, <<"c","p","p">>, <<"c","+","+">>,
    <<"c","s","h","a","r","p">>, <<"c","s">>, <<"r","u","b","y">>, <<"r","b">>,
    <<"p","h","p">>, <<"p","e","r","l">>, <<"s","w","i","f","t">>, <<"k","o","t","l","i","n">>,
    <<"s","c","a","l","a">>, <<"h","a","s","k","e","l","l">>, <<"h","s">>, <<"l","u","a">>,
    <<"r">>, <<"s","q","l">>, <<"b","a","s","h">>, <<"s","h">>, <<"z","s","h">>,
    <<"f","i","s","h">>, <<"p","o","w","e","r","s","h","e","l","l">>, <<"p","s","1">>,
    <<"h","t","m","l">>, <<"c","s","s">>, <<"s","c","s","s">>, <<"s","a","s","s">>,
    <<"l","e","s","s">>, <<"x","m","l">>, <<"j","s","o","n">>, <<"y","a","m","l">>,
    <<"y","m","l">>, <<"t","o","m","l">>, <<"i","n","i">>, <<"c","o","n","f">>,
    <<"c","f","g">>, <<"d","o","c","k","e","r","f","i","l","e">>, <<"d","o","c","k","e","r">>,
    <<"m","a","k","e","f","i","l","e">>, <<"m","a","k","e">>, <<"c","m","a","k","e">>,
    <<"e","l","i","x","i","r">>, <<"e","x">>, <<"e","r","l","a","n","g">>, <<"e","r","l">>,
    <<"c","l","o","j","u","r","e">>, <<"c","l","j">>, <<"o","c","a","m","l">>, <<"m","l">>,
    <<"f","s","h","a","r","p">>, <<"f","s">>, <<"d","a","r","t">>, <<"z","i","g">>,
    <<"n","i","m">>, <<"v">>, <<"v","l","a","n","g">>, <<"g","r","o","o","v","y">>,
    <<"m","a","t","l","a","b">>, <<"j","u","l","i","a">>, <<"j","l">>, <<"o","b","j","c">>,
    <<"o","b","j","e","c","t","i","v","e","-","c">>, <<"a","s","s","e","m","b","l","y">>,
    <<"a","s","m">>, <<"n","a","s","m">>, <<"w","a","s","m">>, <<"g","r","a","p","h","q","l">>,
    <<"g","q","l">>, <<"p","r","o","t","o","b","u","f">>, <<"p","r","o","t","o">>,
    <<"t","h","r","i","f","t">>, <<"c","s","v">>, <<"d","i","f","f">>, <<"p","a","t","c","h">>
    }

DIAGRAM_TAGS ==
    {<<"t","e","x","t">>, <<"a","s","c","i","i">>,
     <<"d","i","a","g","r","a","m">>, <<"t","x","t">>, <<>>}

(* --------------------------- string primitives ------------------------- *)

UPPER == <<"A","B","C","D","E","F","G","H","I","J","K","L","M",
           "N","O","P","Q","R","S","T","U","V","W","X","Y","Z">>
LOWER == <<"a","b","c","d","e","f","g","h","i","j","k","l","m",
           "n","o","p","q","r","s","t","u","v","w","x","y","z">>

\* str.lower(), character by character.
lower(s) ==
    [k \in 1..Len(s) |->
        IF \E u \in 1..Len(UPPER) : UPPER[u] = s[k]
        THEN LOWER[CHOOSE u \in 1..Len(UPPER) : UPPER[u] = s[k]]
        ELSE s[k]]

RECURSIVE lstrip(_)
lstrip(s) ==
    IF s = <<>> THEN s
    ELSE IF Head(s) \in WHITESPACE THEN lstrip(Tail(s)) ELSE s

RECURSIVE rstrip(_)
rstrip(s) ==
    IF s = <<>> THEN s
    ELSE IF s[Len(s)] \in WHITESPACE THEN rstrip(SubSeq(s, 1, Len(s) - 1)) ELSE s

strip(s) == rstrip(lstrip(s))

startswith(s, p) == Len(s) >= Len(p) /\ SubSeq(s, 1, Len(p)) = p

endswith(s, p) == Len(s) >= Len(p) /\ SubSeq(s, Len(s) - Len(p) + 1, Len(s)) = p

\* The least element of a non-empty set of integers.
Min(S) == CHOOSE m \in S : \A n \in S : m <= n

\* c * n
Repeat(c, n) == [k \in 1..n |-> c]

\* s.split()[0] of a stripped, non-empty s: the characters before the first
\* whitespace character.
FirstToken(s) ==
    LET ws == {k \in 1..Len(s) : s[k] \in WHITESPACE}
    IN  IF ws = {} THEN s ELSE SubSeq(s, 1, Min(ws) - 1)

\* text.split("\n"): the pieces between the NL characters (one more piece
\* than there are NL characters).
RECURSIVE Split(_)
Split(t) ==
    LET nls == {k \in 1..Len(t) : t[k] = NL}
    IN  IF nls = {} THEN <<t>>
        ELSE <<SubSeq(t, 1, Min(nls) - 1)>> \o Split(SubSeq(t, Min(nls) + 1, Len(t)))

\* "\n".join(lines)
RECURSIVE Join(_)
Join(ls) ==
    IF ls = <<>> THEN <<>>
    ELSE IF Len(ls) = 1 THEN ls[1]
    ELSE ls[1] \o <<NL>> \o Join(Tail(ls))

\* result.rstrip("\n")
rstrip_newlines(s) ==
    LET keep == {k \in 1..Len(s) : s[k] # NL}
    IN  IF keep = {} THEN <<>> ELSE SubSeq(s, 1, CHOOSE k \in keep : \A m \in keep : m <= k)

display_width(s) == Len(s)

(* ------------------------------ classifier ----------------------------- *)

FENCES == << <<BT, BT, BT>>, <<TILDE, TILDE, TILDE>> >>

\* _is_fence: (is_fence, tag)
is_fence(line) ==
    LET stripped == strip(line)
        tag0 == lower(strip(SubSeq(stripped, 4, Len(stripped))))
        tag  == IF tag0 # <<>> THEN FirstToken(tag0) ELSE <<>>
    IN  IF \E f \in 1..Len(FENCES) : startswith(stripped, FENCES[f])
        THEN [is_fence |-> TRUE, tag |-> tag]
        ELSE [is_fence |-> FALSE, tag |-> <<>>]

\* A line whose first non-whitespace character is a left border character.
BorderStart(line) ==
    LET stripped == lstrip(line)
    IN  stripped # <<>> /\ stripped[1] \in LEFT_BORDER_CHARS

is_diagram_block(lines) ==
    LET border_starts == Cardinality({k \in 1..Len(lines) : BorderStart(lines[k])})
        has_hrule ==
            \E k \in 1..Len(lines) :
                LET stripped == lstrip(lines[k])
                IN  \E j \in 1..Len(stripped) : stripped[j] \in HRULE_CHARS
    IN  border_starts >= 3 /\ has_hrule

(* -------------------------------- grouper ------------------------------ *)

\* _split_groups, from line i on, with the groups closed so far and the
\* group being collected.  A group is a sequence of [idx, text] pairs.
RECURSIVE SplitGroupsFrom(_, _, _, _)
SplitGroupsFrom(lines, i, groups, current) ==
    IF i > Len(lines)
    THEN IF current # <<>> THEN Append(groups, current) ELSE groups
    ELSE IF BorderStart(lines[i])
         THEN SplitGroupsFrom(lines, i + 1, groups,
                              Append(current, [idx |-> i, text |-> lines[i]]))
         ELSE SplitGroupsFrom(lines, i + 1,
                              IF current # <<>> THEN Append(groups, current) ELSE groups,
                              <<>>)

\* Mutant of split_groups: a line that is not a border line does not end the
\* group, so all the border lines of a block make one group.
split_groups_merged(lines) ==
    LET border == SelectSeq([k \in 1..Len(lines) |-> [idx |-> k, text |-> lines[k]]],
                            LAMBDA e : BorderStart(e.text))
    IN  IF border = <<>> THEN <<>> ELSE <<border>>

split_groups(lines) == SplitGroupsFrom(lines, 1, <<>>, <<>>)

(* ----------------------------- line repairer --------------------------- *)

\* The first horizontal rule character of the line, U+2500 when it has none.
find_fill_char(line) ==
    LET hs == {k \in 1..Len(line) : line[k] \in HRULE_CHARS}
    IN  IF hs = {} THEN LH ELSE line[Min(hs)]

\* The line without its last character when that is right_char
\* ("Remove existing right border if present").
DropRightBorder(stripped, right_char) ==
    IF stripped # <<>> /\ stripped[Len(stripped)] = right_char
    THEN SubSeq(stripped, 1, Len(stripped) - 1)
    ELSE stripped

\* The last position of a junction character, the first position excluded
\* (range(len(stripped) - 1, 0, -1)); 0 when there is none (the source's -1).
LastJunction(stripped) ==
    LET js == {k \in 2..Len(stripped) : stripped[k] \in JUNCTION_CHARS}
    IN  IF js = {} THEN 0 ELSE CHOOSE k \in js : \A m \in js : m <= k

fix_hrule_line(line, target_width, left_char) ==
    LET right_char == RIGHT_BORDER(left_char)
        stripped == DropRightBorder(rstrip(line), right_char)
        fill_char == find_fill_char(stripped)
        last_junction == LastJunction(stripped)
        prefix == SubSeq(stripped, 1, last_junction)
    IN  IF last_junction > 0
        THEN LET needed == target_width - 1 - Len(prefix)
             IN  IF needed > 0
                 THEN prefix \o Repeat(fill_char, needed) \o <<right_char>>
                 ELSE prefix \o <<right_char>>
        ELSE LET needed == target_width - 1 - Len(stripped)
             IN  IF needed > 0
                 THEN stripped \o Repeat(fill_char, needed) \o <<right_char>>
                 ELSE stripped \o <<right_char>>

\* Mutant of fix_content_line: the right border is put back without the
\* padding that brings the line to the target width.
fix_content_line_nopad(line, target_width, left_char) ==
    LET right_char == RIGHT_BORDER(left_char)
        stripped == DropRightBorder(rstrip(line), right_char)
    IN  stripped \o <<right_char>>

fix_content_line(line, target_width, left_char) ==
    LET right_char == RIGHT_BORDER(left_char)
        stripped == DropRightBorder(rstrip(line), right_char)
        needed == target_width - 1 - Len(stripped)
    IN  IF needed > 0
        THEN stripped \o Repeat(SP, needed) \o <<right_char>>
        ELSE stripped \o <<right_char>>

\* The width a line needs: its right-trimmed length, plus one when its
\* right border character is missing.
EffectiveWidth(line) ==
    LET first == lstrip(line)[1]
        rstripped == rstrip(line)
    IN  IF first \in LEFT_BORDER_CHARS /\ ~endswith(rstripped, <<RIGHT_BORDER(first)>>)
        THEN Len(rstripped) + 1
        ELSE Len(rstripped)

SeqMax(ws) ==
    IF ws = <<>> THEN 0
    ELSE CHOOSE w \in {ws[k] : k \in 1..Len(ws)} : \A k \in 1..Len(ws) : ws[k] <= w

\* target_width of a group given as its texts.
TargetWidth(lines) ==
    LET nonblank == SelectSeq(lines, LAMBDA l : lstrip(l) # <<>>)
    IN  SeqMax([k \in 1..Len(nonblank) |-> EffectiveWidth(nonblank[k])])

\* One line of the "Fix each line" loop of _fix_group.
FixLine(line, target_width) ==
    LET stripped == lstrip(line)
        first == stripped[1]
        leading == SubSeq(line, 1, Len(line) - Len(stripped))
        fixed ==
            IF first \in HRULE_LEFT
            THEN fix_hrule_line(stripped, target_width - Len(leading), first)
            ELSE IF first \in {LV, "|"}
            THEN fix_content_line(stripped, target_width - Len(leading), first)
            ELSE IF first \in LEFT_BORDER_CHARS
            THEN LET right_char == RIGHT_BORDER(first)
                     fixed_stripped == DropRightBorder(rstrip(stripped), right_char)
                     needed == target_width - Len(leading) - 1 - Len(fixed_stripped)
                 IN  IF needed > 0
                     THEN fixed_stripped \o Repeat(SP, needed) \o <<right_char>>
                     ELSE fixed_stripped \o <<right_char>>
            ELSE stripped
    IN  IF stripped = <<>> THEN line ELSE leading \o fixed

\* _fix_group before its call of _fix_nested_in_group (lines 176-228).
FixOuter(group) ==
    LET target_width == TargetWidth([k \in 1..Len(group) |-> group[k].text])
    IN  [k \in 1..Len(group) |->
            [idx |-> group[k].idx, text |-> FixLine(group[k].text, target_width)]]

(* --------------------------- nested-box repairer ----------------------- *)

\* "Collect consecutive content lines with the same outer border char":
\* the first position from i on whose line does not start with outer_char.
RECURSIVE RunEnd(_, _, _)
RunEnd(result, i, outer_char) ==
    IF i > Len(result) THEN i
    ELSE LET s == lstrip(result[i].text)
         IN  IF s # <<>> /\ s[1] = outer_char
             THEN RunEnd(result, i + 1, outer_char)
             ELSE i

\* l[1:-1] when l ends with the outer right border, l[1:] otherwise.
InnerLine(l, outer_right) ==
    IF Len(l) >= 2 /\ l[Len(l)] = outer_right
    THEN SubSeq(l, 2, Len(l) - 1)
    ELSE SubSeq(l, 2, Len(l))

\* Mutant of SpliceInner: an inner text longer than the inner width is spliced
\* back like any other.
RECURSIVE SpliceInner_noskip(_, _, _, _, _, _)
SpliceInner_noskip(result, inner_fixed, k, run, run_start, outer_right) ==
    IF k > Len(inner_fixed) THEN result
    ELSE LET inner_width == Len(run[1].text) - 2
             inner_text == inner_fixed[k].text
             padded == inner_text \o Repeat(SP, inner_width - Len(inner_text))
             new_line == <<run[1].text[1]>> \o padded \o <<outer_right>>
             actual_idx == run_start + inner_fixed[k].idx - 1
         IN  SpliceInner_noskip(
                 [result EXCEPT ![actual_idx] =
                     [idx |-> result[actual_idx].idx, text |-> new_line]],
                 inner_fixed, k + 1, run, run_start, outer_right)

\* "Re-pad inner text to maintain outer box width" and "Re-assemble with
\* outer borders", for the lines k.. of one fixed inner group.
RECURSIVE SpliceInner(_, _, _, _, _, _)
SpliceInner(result, inner_fixed, k, run, run_start, outer_right) ==
    IF k > Len(inner_fixed) THEN result
    ELSE LET outer_width == Len(run[1].text)
             inner_width == outer_width - 2
             inner_text == inner_fixed[k].text
             padded == inner_text \o Repeat(SP, inner_width - Len(inner_text))
             new_line == <<run[1].text[1]>> \o padded \o <<outer_right>>
             actual_idx == run_start + inner_fixed[k].idx - 1
         IN  IF Len(inner_text) > inner_width
             THEN SpliceInner(result, inner_fixed, k + 1, run, run_start, outer_right)
             ELSE SpliceInner(
                      [result EXCEPT ![actual_idx] =
                          [idx |-> result[actual_idx].idx, text |-> new_line]],
                      inner_fixed, k + 1, run, run_start, outer_right)

RECURSIVE fix_group(_)
RECURSIVE fix_nested_in_group(_)

\* "for inner_group in inner_groups", from group g on.
RECURSIVE FixInnerGroups(_, _, _, _, _, _)
FixInnerGroups(result, inner_groups, g, run, run_start, outer_right) ==
    IF g > Len(inner_groups) THEN result
    ELSE FixInnerGroups(
             SpliceInner(result, fix_group(inner_groups[g]), 1, run, run_start, outer_right),
             inner_groups, g + 1, run, run_start, outer_right)

\* The while loop of _fix_nested_in_group, from position i on.
RECURSIVE NestedScan(_, _)
NestedScan(result, i) ==
    IF i > Len(result) THEN result
    ELSE LET stripped == lstrip(result[i].text)
         IN  IF stripped = <<>> \/ stripped[1] \notin {LV, "|"}
             THEN NestedScan(result, i + 1)
             ELSE LET outer_char == stripped[1]
                      outer_right == RIGHT_BORDER(outer_char)
                      run_start == i
                      run_end == RunEnd(result, i, outer_char)
                      run == SubSeq(result, run_start, run_end - 1)
                      inner_lines ==
                          [k \in 1..Len(run) |-> InnerLine(run[k].text, outer_right)]
                  IN  IF run_end - run_start < 3
                      THEN NestedScan(result, run_end)
                      ELSE IF ~is_diagram_block(inner_lines)
                      THEN NestedScan(result, run_end)
                      ELSE NestedScan(
                               FixInnerGroups(result, split_groups(inner_lines), 1,
                                              run, run_start, outer_right),
                               run_end)

fix_nested_in_group(fixed_group) == NestedScan(fixed_group, 1)

fix_group(group) == fix_nested_in_group(FixOuter(group))

(* ------------------------- depth of the recursion ---------------------- *)

\* The nesting depth at which the interpreter's call stack is exhausted and
\* the recursive call of _fix_group raises RecursionError. CPython's default
\* frame limit of 1000 is reached at a nesting of about 500 (two frames per
\* level); the model scales the limit down to the size of its inputs. The
\* code itself keeps no limit of its own.
MaxRecursionDepth == 4

RECURSIVE RecursionDepth(_)

\* The deepest chain of _fix_group calls made for the inner groups k.. .
RECURSIVE InnerGroupsDepth(_, _)
InnerGroupsDepth(inner_groups, k) ==
    IF k > Len(inner_groups) THEN 0
    ELSE LET here == RecursionDepth(inner_groups[k])
             rest == InnerGroupsDepth(inner_groups, k + 1)
         IN  IF here > rest THEN here ELSE rest

\* The deepest chain of _fix_group calls that _fix_nested_in_group makes from
\* position i on: the runs and their inner groups are found as in NestedScan
\* (a splice changes lines of its own run only, so later runs are found in
\* the lines the outer fix produced).
RECURSIVE NestedDepth(_, _)
NestedDepth(result, i) ==
    IF i > Len(result) THEN 0
    ELSE LET stripped == lstrip(result[i].text)
         IN  IF stripped = <<>> \/ stripped[1] \notin {LV, "|"}
             THEN NestedDepth(result, i + 1)
             ELSE LET outer_char == stripped[1]
                      outer_right == RIGHT_BORDER(outer_char)
                      run_end == RunEnd(result, i, outer_char)
                      run == SubSeq(result, i, run_end - 1)
                      inner_lines ==
                          [k \in 1..Len(run) |-> InnerLine(run[k].text, outer_right)]
                      rest == NestedDepth(result, run_end)
                  IN  IF run_end - i < 3 \/ ~is_diagram_block(inner_lines)
                      THEN rest
                      ELSE LET here == InnerGroupsDepth(split_groups(inner_lines), 1)
                           IN  IF here > rest THEN here ELSE rest

\* The number of _fix_group calls on the stack at the deepest point of
\* _fix_group(group).
RecursionDepth(group) == 1 + NestedDepth(FixOuter(group), 1)

(* ---------------------------- document driver -------------------------- *)

\* Mutant of SplicePosition: the repaired line is written one line too low.
SplicePosition_next(fence_start, orig_idx) == fence_start + orig_idx + 1

\* "for orig_idx, new_text in fixed: lines[fence_start + 1 + orig_idx] = new_text"
\* (idx is 1-based here, so the position is fence_start + idx).
SplicePosition(fence_start, orig_idx) == fence_start + orig_idx

RECURSIVE SpliceFixed(_, _, _, _)
SpliceFixed(ls, fixed, k, fence_start) ==
    IF k > Len(fixed) THEN ls
    ELSE SpliceFixed(
             [ls EXCEPT ![SplicePosition(fence_start, fixed[k].idx)] = fixed[k].text],
             fixed, k + 1, fence_start)

\* "for group in groups: fixed = _fix_group(group) ...", from group g on.
RECURSIVE SpliceGroups(_, _, _, _)
SpliceGroups(ls, groups, g, fence_start) ==
    IF g > Len(groups) THEN ls
    ELSE SpliceGroups(SpliceFixed(ls, fix_group(groups[g]), 1, fence_start),
                      groups, g + 1, fence_start)

\* Mutant of should_process: the tag of the opening fence is not looked at.
should_process_any_tag(tag, block_lines) == is_diagram_block(block_lines)

should_process(tag, block_lines) ==
    /\ tag \in DIAGRAM_TAGS
    /\ tag \notin CODE_LANG_TAGS
    /\ is_diagram_block(block_lines)

\* The lines of the block opened at position fence_start and closed at i.
BlockLines(ls, fence_start, close) == SubSeq(ls, fence_start + 1, close - 1)

\* The line buffer after the block [fence_start, close] has been closed.
ProcessBlock(ls, tag, fence_start, close) ==
    LET block_lines == BlockLines(ls, fence_start, close)
    IN  IF should_process(tag, block_lines)
        THEN SpliceGroups(ls, split_groups(block_lines), 1, fence_start)
        ELSE ls

\* Mutant of FinalText: trailing newlines are always stripped.
FinalText_strip(ls, ewn) == rstrip_newlines(Join(ls))

\* "Preserve original trailing newline behavior"
FinalText(ls, ewn) ==
    LET joined == Join(ls)
    IN  IF ewn /\ ~endswith(joined, <<NL>>) THEN Append(joined, NL)
        ELSE IF ~ewn /\ endswith(joined, <<NL>>) THEN rstrip_newlines(joined)
        ELSE joined

\* The repair of the block open..close exhausts the call stack: the
\* block is processed and one of its groups nests deeper than the stack allows.
Raises(ls, tag, open, close) ==
    /\ should_process(tag, BlockLines(ls, open, close))
    /\ \E g \in 1..Len(split_groups(BlockLines(ls, open, close))) :
           RecursionDepth(split_groups(BlockLines(ls, open, close))[g])
               > MaxRecursionDepth

\* fix_diagrams as a function of its argument: the while loop from line i on,
\* with the fence state in_f, tag, start. The outcome is the list of lines,
\* or raised when a repair exhausts the call stack.
RECURSIVE ScanFrom(_, _, _, _, _)
ScanFrom(ls, i, in_f, tag, start) ==
    IF i > Len(ls) THEN [raised |-> FALSE, lines |-> ls]
    ELSE LET f == is_fence(ls[i])
         IN  IF ~f.is_fence THEN ScanFrom(ls, i + 1, in_f, tag, start)
             ELSE IF ~in_f THEN ScanFrom(ls, i + 1, TRUE, f.tag, i)
             ELSE IF Raises(ls, tag, start, i) THEN [raised |-> TRUE, lines |-> ls]
             ELSE ScanFrom(ProcessBlock(ls, tag, start, i), i + 1, FALSE, <<>>, 0)

fix_diagrams(t) ==
    LET r == ScanFrom(Split(t), 1, FALSE, <<>>, 0)
    IN  [raised |-> r.raised,
         text |-> IF r.raised THEN <<>> ELSE FinalText(r.lines, endswith(t, <<NL>>))]

(* ------------------------------ table engine --------------------------- *)

PIPE == "|"

\* s.count(c)
count(s, c) == Cardinality({k \in 1..Len(s) : s[k] = c})

\* s.split(c): the pieces between the occurrences of c.
RECURSIVE split_on(_, _)
split_on(s, c) ==
    LET at == {k \in 1..Len(s) : s[k] = c}
    IN  IF at = {} THEN <<s>>
        ELSE <<SubSeq(s, 1, Min(at) - 1)>> \o split_on(SubSeq(s, Min(at) + 1, Len(s)), c)

\* sep.join(parts)
RECURSIVE join_with(_, _)
join_with(parts, sep) ==
    IF parts = <<>> THEN <<>>
    ELSE IF Len(parts) = 1 THEN parts[1]
    ELSE parts[1] \o sep \o join_with(Tail(parts), sep)

\* s.strip("|"): every leading and every trailing pipe is removed.
strip_pipes(s) ==
    LET keep == {k \in 1..Len(s) : s[k] # PIPE}
    IN  IF keep = {} THEN <<>>
        ELSE SubSeq(s, Min(keep), CHOOSE k \in keep : \A m \in keep : m <= k)

\* cell.ljust(w)
ljust(cell, w) == cell \o Repeat(SP, w - Len(cell))

\* re.match(r"^\s*:?-+:?\s*$", cell): optional colon, one or more hyphens,
\* optional colon, between optional whitespace.
matches_separator_cell(cell) ==
    LET c == strip(cell)
        from == IF c # <<>> /\ c[1] = ":" THEN 2 ELSE 1
        to == IF Len(c) >= from /\ c[Len(c)] = ":" THEN Len(c) - 1 ELSE Len(c)
    IN  /\ to >= from
        /\ \A k \in from..to : c[k] = "-"

is_separator_row(line) ==
    LET stripped == strip(line)
        cells == split_on(strip_pipes(stripped), PIPE)
    IN  /\ startswith(stripped, <<PIPE>>)
        /\ \A k \in 1..Len(cells) :
               strip(cells[k]) # <<>> => matches_separator_cell(cells[k])

is_table_row(line) ==
    LET stripped == strip(line)
    IN  /\ startswith(stripped, <<PIPE>>)
        /\ endswith(stripped, <<PIPE>>)
        /\ count(stripped, PIPE) >= 2

parse_table_cells(line) ==
    LET stripped == strip(line)
        s1 == IF startswith(stripped, <<PIPE>>) THEN Tail(stripped) ELSE stripped
        s2 == IF endswith(s1, <<PIPE>>) THEN SubSeq(s1, 1, Len(s1) - 1) ELSE s1
        cells == split_on(s2, PIPE)
    IN  [k \in 1..Len(cells) |-> strip(cells[k])]

detect_alignment(cell) ==
    LET c == strip(cell)
    IN  IF startswith(c, <<":">>) /\ endswith(c, <<":">>) THEN "center"
        ELSE IF endswith(c, <<":">>) THEN "right"
        ELSE IF startswith(c, <<":">>) THEN "left-explicit"
        ELSE "left"

\* The first position from i on whose line is no table row.
RECURSIVE TableEnd(_, _)
TableEnd(ls, i) ==
    IF i <= Len(ls) /\ is_table_row(ls[i]) THEN TableEnd(ls, i + 1) ELSE i

\* "Find the separator row": its position in table_lines, 0 for None.
SepIdx(table_lines) ==
    LET seps == {j \in 1..Len(table_lines) : is_separator_row(table_lines[j])}
    IN  IF seps = {} THEN 0 ELSE Min(seps)

\* "Pad cell lists to have equal columns"
PadCells(cells, num_cols, filler) ==
    [k \in 1..num_cols |-> IF k <= Len(cells) THEN cells[k] ELSE filler]

\* "Find max width per column (from non-separator rows)", at least 3.
ColWidths(all_cells, sep_idx, num_cols) ==
    [k \in 1..num_cols |->
        LET w == SeqMax([j \in 1..Len(all_cells) |->
                            IF j = sep_idx THEN 0 ELSE Len(all_cells[j][k])])
        IN  IF w > 3 THEN w ELSE 3]

\* One cell of the rebuilt separator row.
SeparatorPart(align, w) ==
    IF align = "center" THEN <<":">> \o Repeat("-", w) \o <<":">>
    ELSE IF align = "right" THEN Repeat("-", w + 1) \o <<":">>
    ELSE IF align = "left-explicit" THEN <<":">> \o Repeat("-", w + 1)
    ELSE Repeat("-", w + 2)

\* "| " + " | ".join(parts) + " |"
RowText(parts) == <<PIPE, SP>> \o join_with(parts, <<SP, PIPE, SP>>) \o <<SP, PIPE>>

\* "Rebuild the table": the new lines of table_lines, whose separator row is
\* at sep_idx.
RebuildTable(table_lines, sep_idx) ==
    LET parsed == [j \in 1..Len(table_lines) |-> parse_table_cells(table_lines[j])]
        num_cols == SeqMax([j \in 1..Len(parsed) |-> Len(parsed[j])])
        all_cells == [j \in 1..Len(parsed) |-> PadCells(parsed[j], num_cols, <<>>)]
        col_widths == ColWidths(all_cells, sep_idx, num_cols)
        sep_cells == PadCells(parse_table_cells(table_lines[sep_idx]), num_cols,
                              <<"-", "-", "-">>)
        alignments == [k \in 1..num_cols |-> detect_alignment(sep_cells[k])]
    IN  [j \in 1..Len(table_lines) |->
            IF j = sep_idx
            THEN RowText([k \in 1..num_cols |->
                              SeparatorPart(alignments[k], col_widths[k])])
            ELSE RowText([k \in 1..num_cols |->
                              ljust(all_cells[j][k], col_widths[k])])]

\* The table is rebuilt: it has two rows or more and a separator row.
IsTable(table_lines) == Len(table_lines) >= 2 /\ SepIdx(table_lines) # 0

\* The lines with the table rows table_start..table_end-1 rebuilt, or as they
\* are when the rows make no table.
FixTableAt(ls, table_start, table_end) ==
    LET table_lines == SubSeq(ls, table_start, table_end - 1)
        rebuilt == RebuildTable(table_lines, SepIdx(table_lines))
    IN  IF ~IsTable(table_lines) THEN ls
        ELSE [k \in 1..Len(ls) |->
                 IF k >= table_start /\ k < table_end
                 THEN rebuilt[k - table_start + 1] ELSE ls[k]]

\* The while loop of fix_tables from line i on.
RECURSIVE TablesFrom(_, _)
TablesFrom(ls, i) ==
    IF i > Len(ls) THEN ls
    ELSE IF ~is_table_row(ls[i]) THEN TablesFrom(ls, i + 1)
    ELSE TablesFrom(FixTableAt(ls, i, TableEnd(ls, i)), TableEnd(ls, i))

fix_tables(t) == FinalText(TablesFrom(Split(t), 1), endswith(t, <<NL>>))

VARIABLES
    text,               \* the argument of fix_diagrams
    lines,              \* text.split("\n"), rewritten in place
    ends_with_newline,
    in_fence,
    fence_tag,
    fence_start,        \* position of the opening fence line, 0 when none
    i,                  \* position of the line the loop is at
    pc,                 \* "scan": in the while loop; "done": returned;
                        \* "raised": left by an exception
    result,             \* the returned text (<<>> until pc = "done")
    pass,               \* 1: first call; 2: the call on the first call's result
    blocks              \* history: the blocks closed so far, each with the
                        \* positions of its fences, its tag and whether
                        \* should_process held for it

\* The state of the command line (cli.py): the file system and one invocation
\* of main.
VARIABLES
    fs,                 \* the files: name -> [kind, data]
    fs0,                \* history: the files when the invocation began
    args,               \* the parsed arguments: files, check, diff, backup, mdtable
    any_changes,
    fidx,               \* position in args.files of the file the loop is at
    cli_pc,             \* "idle": main not called; "loop"; "exited"
    returncode,         \* the exit status, once cli_pc = "exited"
    run                 \* 1: first invocation; 2: the --check run after it

diagram_vars == <<text, lines, ends_with_newline, in_fence, fence_tag, fence_start,
                  i, pc, result, pass, blocks>>

cli_vars == <<fs, fs0, args, any_changes, fidx, cli_pc, returncode, run>>

vars == <<diagram_vars, cli_vars>>

\* main is not running.
CliIdle ==
    /\ fs = <<>> /\ fs0 = <<>> /\ args = <<>>
    /\ any_changes = FALSE /\ fidx = 0
    /\ cli_pc = "idle" /\ returncode = 0 /\ run = 0

\* The state at the head of the while loop of fix_diagrams(t).
Enter(t) ==
    /\ text = t
    /\ lines = Split(t)
    /\ ends_with_newline = endswith(t, <<NL>>)
    /\ in_fence = FALSE
    /\ fence_tag = <<>>
    /\ fence_start = 0
    /\ i = 1
    /\ pc = "scan"
    /\ result = <<>>
    /\ pass = 1
    /\ blocks = {}
    /\ CliIdle

\* A fence line met outside a block opens one.
OpenFence ==
    /\ pc = "scan" /\ i <= Len(lines)
    /\ ~in_fence
    /\ is_fence(lines[i]).is_fence
    /\ in_fence' = TRUE
    /\ fence_tag' = is_fence(lines[i]).tag
    /\ fence_start' = i
    /\ i' = i + 1
    /\ UNCHANGED <<text, lines, ends_with_newline, pc, result, pass, blocks>>
    /\ UNCHANGED cli_vars

\* A fence line met inside a block closes it; a qualifying block is repaired.
\* When the repair exhausts the call stack the exception leaves fix_diagrams
\* and nothing is returned.
CloseFence ==
    /\ pc = "scan" /\ i <= Len(lines)
    /\ in_fence
    /\ is_fence(lines[i]).is_fence
    /\ IF Raises(lines, fence_tag, fence_start, i)
       THEN /\ pc' = "raised"
            /\ UNCHANGED <<lines, blocks, in_fence, fence_tag, fence_start, i>>
       ELSE /\ lines' = ProcessBlock(lines, fence_tag, fence_start, i)
            /\ blocks' = blocks \cup
                   {[start |-> fence_start, close |-> i, tag |-> fence_tag,
                     repaired |-> should_process(fence_tag,
                                                 BlockLines(lines, fence_start, i))]}
            /\ in_fence' = FALSE
            /\ fence_tag' = <<>>
            /\ fence_start' = 0
            /\ i' = i + 1
            /\ pc' = pc
    /\ UNCHANGED <<text, ends_with_newline, result, pass>>
    /\ UNCHANGED cli_vars

\* Any other line is stepped over.
NextLine ==
    /\ pc = "scan" /\ i <= Len(lines)
    /\ ~is_fence(lines[i]).is_fence
    /\ i' = i + 1
    /\ UNCHANGED <<text, lines, ends_with_newline, in_fence, fence_tag,
                   fence_start, pc, result, pass, blocks>>
    /\ UNCHANGED cli_vars

\* Mutant of Return: the end of the document closes a block that is open.
Return_closing ==
    /\ pc = "scan" /\ i > Len(lines)
    /\ result' = FinalText(IF in_fence
                           THEN ProcessBlock(lines, fence_tag, fence_start, Len(lines) + 1)
                           ELSE lines,
                           ends_with_newline)
    /\ pc' = "done"
    /\ UNCHANGED <<text, lines, ends_with_newline, in_fence, fence_tag,
                   fence_start, i, pass, blocks>>
    /\ UNCHANGED cli_vars

\* The loop is over: join the lines and restore the trailing newline.
Return ==
    /\ pc = "scan" /\ i > Len(lines)
    /\ result' = FinalText(lines, ends_with_newline)
    /\ pc' = "done"
    /\ UNCHANGED <<text, lines, ends_with_newline, in_fence, fence_tag,
                   fence_start, i, pass, blocks>>
    /\ UNCHANGED cli_vars

\* The caller applies fix_diagrams to the text the first call returned.
Reapply ==
    /\ pc = "done" /\ pass = 1
    /\ text' = result
    /\ lines' = Split(result)
    /\ ends_with_newline' = endswith(result, <<NL>>)
    /\ in_fence' = FALSE
    /\ fence_tag' = <<>>
    /\ fence_start' = 0
    /\ i' = 1
    /\ pc' = "scan"
    /\ result' = <<>>
    /\ pass' = 2
    /\ blocks' = {}
    /\ UNCHANGED cli_vars

Next == OpenFence \/ CloseFence \/ NextLine \/ Return \/ Reapply

(* ------------------------------ command line --------------------------- *)

\* What a path names: a readable file with its text, nothing, or a file that
\* open() refuses (OSError).
File(d) == [kind |-> "file", data |-> d]

ABSENT == [kind |-> "absent", data |-> <<>>]

UNREADABLE == [kind |-> "unreadable", data |-> <<>>]

\* filepath + ".bak"
Bak(filepath) == filepath \o ".bak"

\* fixed = fix_diagrams(original), then fix_tables(fixed) with --mdtable;
\* raised when fix_diagrams leaves by an exception.
Fixed(original, mdtable) ==
    LET d == fix_diagrams(original)
    IN  IF d.raised THEN d
        ELSE [raised |-> FALSE,
              text |-> IF mdtable THEN fix_tables(d.text) ELSE d.text]

\* fix_diagrams is not running.
DiagramIdle ==
    /\ text = <<>> /\ lines = <<>> /\ ends_with_newline = FALSE
    /\ in_fence = FALSE /\ fence_tag = <<>> /\ fence_start = 0
    /\ i = 0 /\ pc = "idle" /\ result = <<>> /\ pass = 0 /\ blocks = {}

\* main(argv) begins on the files files0 with the parsed arguments a.
Invoke(files0, a) ==
    /\ fs = files0 /\ fs0 = files0 /\ args = a
    /\ any_changes = FALSE /\ fidx = 1
    /\ cli_pc = "loop" /\ returncode = 0 /\ run = 1
    /\ DiagramIdle

\* The file cannot be opened: the error is printed and main exits with 2.
ReadError ==
    /\ cli_pc = "loop" /\ fidx <= Len(args.files)
    /\ fs[args.files[fidx]].kind # "file"
    /\ returncode' = 2
    /\ cli_pc' = "exited"
    /\ UNCHANGED <<fs, fs0, args, any_changes, fidx, run>>
    /\ UNCHANGED diagram_vars

\* One turn of the loop for a file that can be read. An exception of
\* fix_diagrams is not caught: the interpreter exits with 1.
ProcessFile ==
    /\ cli_pc = "loop" /\ fidx <= Len(args.files)
    /\ fs[args.files[fidx]].kind = "file"
    /\ LET filepath == args.files[fidx]
           original == fs[filepath].data
           fixed == Fixed(original, args.mdtable)
       IN  IF fixed.raised
           THEN /\ returncode' = 1
                /\ cli_pc' = "exited"
                /\ UNCHANGED <<fs, any_changes, fidx>>
           ELSE /\ any_changes' = (any_changes \/ fixed.text # original)
                /\ fidx' = fidx + 1
                /\ fs' = IF args.check \/ args.diff \/ fixed.text = original
                         THEN fs
                         ELSE [fs EXCEPT ![Bak(filepath)] =
                                             IF args.backup THEN fs[filepath] ELSE @,
                                         ![filepath] = File(fixed.text)]
                /\ UNCHANGED <<cli_pc, returncode>>
    /\ UNCHANGED <<fs0, args, run>>
    /\ UNCHANGED diagram_vars

\* The loop is over: exit 1 with --check when a file would change.
Finish ==
    /\ cli_pc = "loop" /\ fidx > Len(args.files)
    /\ returncode' = IF args.check /\ any_changes THEN 1 ELSE 0
    /\ cli_pc' = "exited"
    /\ UNCHANGED <<fs, fs0, args, any_changes, fidx, run>>
    /\ UNCHANGED diagram_vars

\* After a plain in-place run, main is called with --check on the same files.
Recheck ==
    /\ cli_pc = "exited" /\ run = 1 /\ returncode = 0
    /\ ~args.check /\ ~args.diff /\ ~args.backup /\ ~args.mdtable
    /\ args' = [args EXCEPT !.check = TRUE]
    /\ fs0' = fs
    /\ any_changes' = FALSE
    /\ fidx' = 1
    /\ cli_pc' = "loop"
    /\ run' = 2
    /\ UNCHANGED <<fs, returncode>>
    /\ UNCHANGED diagram_vars

NextCli == ReadError \/ ProcessFile \/ Finish \/ Recheck

(* ------------------------------ table driver --------------------------- *)

\* The state at the head of the while loop of fix_tables(t).
EnterTables(t) ==
    /\ text = t
    /\ lines = Split(t)
    /\ ends_with_newline = endswith(t, <<NL>>)
    /\ in_fence = FALSE /\ fence_tag = <<>> /\ fence_start = 0
    /\ i = 1
    /\ pc = "scan"
    /\ result = <<>>
    /\ pass = 1
    /\ blocks = {}
    /\ CliIdle

\* A line that is no table row is stepped over.
SkipRow ==
    /\ pc = "scan" /\ i <= Len(lines)
    /\ ~is_table_row(lines[i])
    /\ i' = i + 1
    /\ UNCHANGED <<text, lines, ends_with_newline, in_fence, fence_tag,
                   fence_start, pc, result, pass, blocks>>
    /\ UNCHANGED cli_vars

\* A run of table rows is collected; with two rows or more and a separator
\* row it is rebuilt in place. blocks records the run.
FixTable ==
    /\ pc = "scan" /\ i <= Len(lines)
    /\ is_table_row(lines[i])
    /\ LET table_end == TableEnd(lines, i)
           table_lines == SubSeq(lines, i, table_end - 1)
       IN  /\ lines' = FixTableAt(lines, i, table_end)
           /\ blocks' = blocks \cup
                  {[start |-> i, close |-> table_end,
                    sep |-> SepIdx(table_lines), rebuilt |-> IsTable(table_lines)]}
           /\ i' = table_end
    /\ UNCHANGED <<text, ends_with_newline, in_fence, fence_tag, fence_start,
                   pc, result, pass>>
    /\ UNCHANGED cli_vars

\* The loop is over: join the lines and restore the trailing newline.
ReturnTables ==
    /\ pc = "scan" /\ i > Len(lines)
    /\ result' = FinalText(lines, ends_with_newline)
    /\ pc' = "done"
    /\ UNCHANGED <<text, lines, ends_with_newline, in_fence, fence_tag,
                   fence_start, i, pass, blocks>>
    /\ UNCHANGED cli_vars

NextTables == SkipRow \/ FixTable \/ ReturnTables

(* ------------------------------- the inputs ---------------------------- *)

FENCE == <<BT, BT, BT>>

\* All sequences of at most n elements of S.
RECURSIVE SeqsUpTo(_, _)
SeqsUpTo(S, n) ==
    IF n = 0 THEN {<<>>}
    ELSE LET shorter == SeqsUpTo(S, n - 1)
         IN  shorter \cup {Append(q, x) : q \in shorter, x \in S}

\* The concatenation of a sequence of sequences.
RECURSIVE Flatten(_)
Flatten(ss) == IF ss = <<>> THEN <<>> ELSE Head(ss) \o Flatten(Tail(ss))

\* Documents for the driver: up to MaxSegments segments, each an opening
\* fence line, a body and possibly a closing fence line, with or without a
\* trailing newline.
MaxSegments == 2

Openers ==
    { FENCE,                                        \* no tag
      <<BT, BT, BT, "p", "y">>,                     \* a code-language tag
      <<TILDE, TILDE, TILDE, SP, "T", "x", "t", SP, "x">>,  \* tag "txt"
      <<BT, BT, BT, "m", "d">> }                    \* a tag of neither list

\* An outer box (its right border missing) around a ragged inner box.
DiagramBody == << <<LV, LDR, LH, LDL>>, <<LV, LV, "a">>, <<LV, LUR, LH, LUL>> >>

\* Three border lines and no horizontal rule character.
NoRuleBody == << <<LV, "a">>, <<LV>>, <<LV, "b", "c">> >>

\* A horizontal rule and only two border lines.
TwoBorderBody == << <<LDR, LH, LH>>, <<"a">>, <<LV, "b">> >>

\* The diagram under every opener, the other bodies under the plain fence.
SegmentKinds ==
    {<<o>> \o DiagramBody : o \in Openers}
        \cup {<<FENCE>> \o b : b \in {NoRuleBody, TwoBorderBody}}

Closers == { <<>>, <<FENCE>> }

Segments == {k \o c : k \in SegmentKinds, c \in Closers}

DriverTexts ==
    {Join(Flatten(d) \o t) : d \in SeqsUpTo(Segments, MaxSegments),
                             t \in {<<>>, << <<>> >>}}

Init == \E t \in DriverTexts : Enter(t)

Spec == Init /\ [][Next]_vars

\* Documents for the repairers: one plain fenced block of at most
\* MaxBodyLines lines, each line a core at indentation 0 or 1.
MaxBodyLines == 3

GroupCores ==
    { <<LV, LDR, LH, LDL, SP, LV>>,   \* inner top rule, outer border after a gap
      <<LV, LDR, LH, LDL>>,           \* inner top rule, outer right border missing
      <<LV, LV, "x">>,                \* inner content, both right borders missing
      <<"+">> }                       \* a lone corner

GroupLeads == { <<>>, <<SP>> }

GroupLines == {l \o c : l \in GroupLeads, c \in GroupCores}

GroupTexts ==
    {Join(<<FENCE>> \o b \o <<FENCE, <<>> >>) : b \in SeqsUpTo(GroupLines, MaxBodyLines)}

InitGroups == \E t \in GroupTexts : Enter(t)

SpecGroups == InitGroups /\ [][Next]_vars

\* Documents for the recursion: one fenced block of three lines, each a nest
\* of 1..MaxNest left borders around a rule character, closed or unterminated,
\* and the empty document.
MaxNest == 5

DeepLines == {Repeat(LV, n) \o <<"-">> : n \in 1..MaxNest}

DeepBodies == [1..3 -> DeepLines]

DeepTexts ==
    {Join(<<FENCE>> \o b \o <<FENCE, <<>> >>) : b \in DeepBodies}
        \cup {Join(<<FENCE>> \o b) : b \in DeepBodies}
        \cup { <<>> }

InitDeep == \E t \in DeepTexts : Enter(t)

SpecDeep == InitDeep /\ [][Next]_vars

\* Invocations of main: at most MaxFiles paths out of two, every combination
\* of the flags, each path naming a document, nothing or an unreadable file.
MaxFiles == 2

FileNames == {"a.md", "b.md"}

CliContents ==
    { Join(<<FENCE, <<LDR, LH>>, <<LV, "a">>, <<LUR, LH, LH>>, FENCE, <<>> >>),
      Join(<< <<"x">>, <<>> >>),
      Join(<<FENCE, <<SP, LV, LV, "x">>, <<LV, LV, "x">>,
             <<LV, LDR, LH, LDL, SP, LV>>, FENCE, <<>> >>),
      Join(<< <<PIPE, SP, "a", SP, PIPE>>, <<PIPE, "-", PIPE>>, <<>> >>) }

FileStates == {File(d) : d \in CliContents} \cup {ABSENT, UNREADABLE}

FileSystems ==
    {[n \in FileNames \cup {Bak(m) : m \in FileNames} |->
          IF n \in FileNames THEN f[n] ELSE ABSENT] : f \in [FileNames -> FileStates]}

Arguments ==
    [files : SeqsUpTo(FileNames, MaxFiles) \ { <<>> },
     check : BOOLEAN, diff : BOOLEAN, backup : BOOLEAN, mdtable : BOOLEAN]

InitCli == \E files0 \in FileSystems, a \in Arguments : Invoke(files0, a)

SpecCli == InitCli /\ [][NextCli]_vars

\* Documents for the table engine: at most MaxRows lines, each a pipe row, a
\* separator row or plain text.
MaxRows == 3

TableRows ==
    { <<PIPE, SP, "a", SP, PIPE, SP, "b", SP, PIPE>>,            \* | a | b |
      <<PIPE, "-", "-", "-", PIPE, "-", "-", "-", PIPE>>,        \* |---|---|
      <<PIPE, ":", "-", ":", PIPE, "-", "-", ":", PIPE>>,        \* |:-:|--:|
      <<PIPE, SP, "a", "b", "c", "d", SP, PIPE>>,                \* | abcd |
      <<PIPE, SP, ":", "-", "-", "-", SP, PIPE>>,                \* | :--- |
      <<"x">> }

TableTexts == {Join(b \o << <<>> >>) : b \in SeqsUpTo(TableRows, MaxRows)}

InitTables == \E t \in TableTexts : EnterTables(t)

SpecTables == InitTables /\ [][NextTables]_vars

\* Documents for the rule repairer: one plain fenced block of at most
\* MaxRuleLines lines: rules with a junction and text before or after it, a
\* closed rule, and a content line.
MaxRuleLines == 3

RuleLines ==
    { <<LDR, LH, LDH, LH, "a", "b">>,      \* text after the junction
      <<LDR, "a", LDH, LH>>,               \* text before the junction
      <<LUR, LH, LH, LUL>>,                \* a closed rule without junction
      <<LV, SP, "x">> }

RuleTexts ==
    {Join(<<FENCE>> \o b \o <<FENCE, <<>> >>) : b \in SeqsUpTo(RuleLines, MaxRuleLines)}

InitRules == \E t \in RuleTexts : Enter(t)

SpecRules == InitRules /\ [][Next]_vars

\* Documents for nested repair: one plain fenced block of at most
\* MaxNestedLines outer content lines, all at indentation 0 or all at 1: the
\* top and a content line of an inner box, a text line that separates inner
\* groups, and an inner content line as wide as the outer box.
MaxNestedLines == 4

NestedCores ==
    { <<LV, LDR, LH, LDL>>,
      <<LV, LV, "a">>,
      <<LV, "x">>,
      <<LV, LV, "a", "b", "c", "d", LV>> }

NestedTexts ==
    {Join(<<FENCE>> \o [k \in 1..Len(b) |-> l \o b[k]] \o <<FENCE, <<>> >>) :
        b \in SeqsUpTo(NestedCores, MaxNestedLines), l \in GroupLeads}

InitNested == \E t \in NestedTexts : Enter(t)

SpecNested == InitNested /\ [][Next]_vars

\* Documents for the fences: at most MaxFenceLines lines, each a backtick
\* fence, a tilde fence or a diagram line.
MaxFenceLines == 4

TFENCE == <<TILDE, TILDE, TILDE>>

FenceLines == {FENCE, TFENCE, <<LDR, LH>>, <<LV, "a">>}

FenceTexts == {Join(b \o << <<>> >>) : b \in SeqsUpTo(FenceLines, MaxFenceLines)}

InitFences == \E t \in FenceTexts : Enter(t)

SpecFences == InitFences /\ [][Next]_vars

\* Well-formed documents: one plain fenced block of at most MaxWellLines
\* lines of one length, each closed by its right border, all at indentation 0
\* or all at 1; content lines with a hyphen, with an interior column
\* separator, and plain.
MaxWellLines == 3

WellCores ==
    { <<LDR, LH, LH, LH, LDL>>,
      <<LV, "a", "-", SP, LV>>,
      <<LV, "a", LV, "b", LV>>,
      <<LV, "b", SP, SP, LV>>,
      <<LUR, LH, LH, LH, LUL>> }

WellTexts ==
    {Join(<<FENCE>> \o [k \in 1..Len(b) |-> l \o b[k]] \o <<FENCE, <<>> >>) :
        b \in SeqsUpTo(WellCores, MaxWellLines), l \in GroupLeads}

InitWell == \E t \in WellTexts : Enter(t)

SpecWell == InitWell /\ [][Next]_vars

\* Documents for the grouper: one plain fenced block of two runs of at most
\* MaxGroupLines border lines each, with a separator line between them.
MaxGroupLines == 2

TwoGroupLines ==
    { <<LDR, LH, LH>>,                \* a rule without its corner
      <<LV, "a">>,                    \* content without its right border
      <<"+", "-", "-", "-", "+">> }   \* a complete, wider ASCII rule

Separators == { <<>>, <<"x">> }

Runs == SeqsUpTo(TwoGroupLines, MaxGroupLines) \ {<<>>}

TwoGroupTexts ==
    {Join(<<FENCE>> \o g1 \o <<sep>> \o g2 \o <<FENCE>>) :
        g1 \in Runs, sep \in Separators, g2 \in Runs}

InitTwoGroups == \E t \in TwoGroupTexts : Enter(t)

SpecTwoGroups == InitTwoGroups /\ [][Next]_vars

(* ------------------------------ the claims ----------------------------- *)

\* The lines of the argument, and the lines of the result (of the line
\* buffer while the loop runs).
In == Split(text)
Out == IF pc = "done" THEN Split(result) ELSE lines

\* The diagram heuristic as the specification words it.
FailsHeuristic(block) ==
    \/ Cardinality({k \in 1..Len(block) : BorderStart(block[k])}) < 3
    \/ ~ \E k \in 1..Len(block) : \E j \in 1..Len(block[k]) : block[k][j] \in HRULE_CHARS

\* Block b of the lines inl is one the driver must leave alone.
Excluded(b, inl) ==
    \/ b.tag \in CODE_LANG_TAGS
    \/ b.tag \notin DIAGRAM_TAGS
    \/ FailsHeuristic(BlockLines(inl, b.start, b.close))

\* The groups of block b of the lines inl.
GroupsOf(b, inl) == split_groups(BlockLines(inl, b.start, b.close))

\* Some line of block b differs between inl and outl.
Changed(b, inl, outl) == \E p \in (b.start + 1)..(b.close - 1) : outl[p] # inl[p]

\* Some block was repaired and a line of it rewritten.
SomeRepair == \E b \in blocks : b.repaired /\ Changed(b, In, Out)

\* C4 (passthrough): the result has the lines of the argument, and a line
\* is identical in both unless it lies inside a closed fenced block whose
\* tag is in the allow-list and not in the deny-list and whose content passes
\* the diagram heuristic; so unfenced lines, fence lines and the lines of
\* every excluded block are unchanged.
C4_Passthrough ==
    LET inl == In
        outl == Out
        open == {b \in blocks : ~Excluded(b, inl)}
    IN  /\ Len(outl) = Len(inl)
        /\ \A p \in 1..Len(inl) :
               (\A b \in open : ~(b.start < p /\ p < b.close)) => outl[p] = inl[p]

\* A returned document with a deny-listed block that has the shape of a
\* diagram, beside a block that was repaired.
C4_Witness ==
    /\ pc = "done" /\ pass = 1
    /\ \E b \in blocks :
           /\ b.tag \in CODE_LANG_TAGS
           /\ ~FailsHeuristic(BlockLines(In, b.start, b.close))
    /\ SomeRepair

\* C5 (newline fidelity): the result ends with a newline exactly when the
\* argument does.
C5_NewlineFidelity ==
    pc = "done" => (endswith(result, <<NL>>) <=> endswith(text, <<NL>>))

\* A repaired document that ends with a newline.
C5_Witness ==
    /\ pc = "done" /\ pass = 1
    /\ endswith(text, <<NL>>)
    /\ SomeRepair

\* Line p of outl is the repaired form of line p of inl: the line _fix_group
\* returns for it in its group of a repaired block.
IsRepairedForm(p, inl, outl) ==
    \E b \in blocks :
        /\ b.repaired /\ b.start < p /\ p < b.close
        /\ LET groups == GroupsOf(b, inl)
           IN  \E g \in 1..Len(groups) : \E k \in 1..Len(groups[g]) :
                   /\ groups[g][k].idx = p - b.start
                   /\ outl[p] = fix_group(groups[g])[k].text

\* C6 (line replacement only): the result has exactly as many lines as the
\* argument, and its p-th line is the p-th line of the argument or the
\* repaired form of that line.
C6_LineReplacement ==
    LET inl == In
        outl == Out
    IN  /\ Len(outl) = Len(inl)
        /\ \A p \in 1..Len(inl) : outl[p] = inl[p] \/ IsRepairedForm(p, inl, outl)

\* A returned document in which nested-box repair rewrote a line.
C6_Witness ==
    /\ pc = "done" /\ pass = 1
    /\ \E b \in blocks :
           /\ b.repaired /\ Changed(b, In, Out)
           /\ \E g \in 1..Len(GroupsOf(b, In)) :
                  fix_group(GroupsOf(b, In)[g]) # FixOuter(GroupsOf(b, In)[g])

\* f is an opening fence line of inl that no later fence line closes.
Unterminated(f, inl) ==
    LET fence_lines == {p \in 1..Len(inl) : is_fence(inl[p]).is_fence}
    IN  /\ f \in fence_lines
        /\ \A p \in fence_lines : p <= f
        /\ Cardinality(fence_lines) % 2 = 1

\* The lines of a block as they must be returned.
Repaired(block) == SpliceGroups(block, split_groups(block), 1, 0)

\* C10 (unterminated fence): when the last fence line of the document opens
\* a block, every line after it is returned unchanged, and the blocks closed
\* before it are repaired all the same.
C10_UnterminatedFence ==
    pc = "done" =>
        LET inl == In
            outl == Out
        IN  \A f \in 1..Len(inl) : Unterminated(f, inl) =>
                /\ Len(outl) = Len(inl)
                /\ \A p \in (f + 1)..Len(inl) : outl[p] = inl[p]
                /\ \A b \in blocks :
                       ~Excluded(b, inl) =>
                           BlockLines(outl, b.start, b.close)
                               = Repaired(BlockLines(inl, b.start, b.close))

\* A returned document whose last block is opened by an allow-listed fence,
\* holds a diagram and is never closed, after a block that was repaired.
C10_Witness ==
    /\ pc = "done" /\ pass = 1
    /\ \E f \in 1..Len(In) :
           /\ Unterminated(f, In)
           /\ is_fence(In[f]).tag \in DIAGRAM_TAGS
           /\ ~FailsHeuristic(SubSeq(In, f + 1, Len(In)))
    /\ SomeRepair

\* C1 (idempotence): fix_diagrams applied to its own result returns it.
C1_Idempotent == (pc = "done" /\ pass = 2) => result = text

\* C2 (width uniformity): in every repaired block, the lines of each group
\* have one length in the result, leading whitespace included.
C2_WidthUniformity ==
    LET inl == In
        outl == Out
    IN  \A b \in blocks : b.repaired =>
            LET groups == GroupsOf(b, inl)
            IN  \A g \in 1..Len(groups) : \A j, k \in 1..Len(groups[g]) :
                    Len(outl[b.start + groups[g][j].idx])
                        = Len(outl[b.start + groups[g][k].idx])

\* A returned document with a group of lines of different lengths that
\* nested-box repair has rewritten.
C2_Witness ==
    /\ pc = "done" /\ pass = 1
    /\ \E b \in blocks :
           /\ b.repaired
           /\ \E g \in 1..Len(GroupsOf(b, In)) :
                  LET group == GroupsOf(b, In)[g]
                  IN  /\ fix_group(group) # FixOuter(group)
                      /\ \E j, k \in 1..Len(group) :
                             Len(group[j].text) # Len(group[k].text)

\* C3 (right borders): in the result, every line of a repaired group still
\* has the left border character c of the argument's line as its first
\* non-whitespace character, and RIGHT_BORDER(c) as its last character.
C3_RightBorders ==
    LET inl == In
        outl == Out
    IN  \A b \in blocks : b.repaired =>
            LET groups == GroupsOf(b, inl)
            IN  \A g \in 1..Len(groups) : \A k \in 1..Len(groups[g]) :
                    LET c == lstrip(groups[g][k].text)[1]
                        o == outl[b.start + groups[g][k].idx]
                    IN  /\ lstrip(o) # <<>>
                        /\ lstrip(o)[1] = c
                        /\ o[Len(o)] = RIGHT_BORDER(c)

\* The characters of a line that are neither whitespace nor fill.
Kept(l) == SelectSeq(l, LAMBDA ch : ch \notin WHITESPACE /\ ch \notin HRULE_CHARS)

Count(l, ch) == Cardinality({k \in 1..Len(l) : l[k] = ch})

RECURSIVE IsSubsequence(_, _)
IsSubsequence(a, b) ==
    IF a = <<>> THEN TRUE
    ELSE IF b = <<>> THEN FALSE
    ELSE IF Head(a) = Head(b) THEN IsSubsequence(Tail(a), Tail(b))
    ELSE IsSubsequence(a, Tail(b))

RightBorderChars == {RIGHT_BORDER(c) : c \in LEFT_BORDER_CHARS}

\* C7 (content preservation): for every content line of a repaired group,
\* the result's line keeps every non-whitespace, non-fill character of the
\* argument's line, in order; it is not shorter than the right-trimmed line;
\* and the characters it has more of are right border characters.
C7_ContentPreserved ==
    LET inl == In
        outl == Out
    IN  \A b \in blocks : b.repaired =>
            LET groups == GroupsOf(b, inl)
            IN  \A g \in 1..Len(groups) : \A k \in 1..Len(groups[g]) :
                    LET l == groups[g][k].text
                        o == outl[b.start + groups[g][k].idx]
                    IN  lstrip(l)[1] \in {LV, "|"} =>
                            /\ IsSubsequence(Kept(l), Kept(o))
                            /\ Len(o) >= Len(rstrip(l))
                            /\ \A ch \in {Kept(o)[n] : n \in 1..Len(Kept(o))} :
                                   \/ Count(Kept(o), ch) = Count(Kept(l), ch)
                                   \/ ch \in RightBorderChars

\* The leading whitespace of a line, and a line without its leading
\* whitespace and its first and last characters (its outer borders).
LeadingOf(l) == SubSeq(l, 1, Len(l) - Len(lstrip(l)))
WithinBorders(l) == SubSeq(lstrip(l), 2, Len(lstrip(l)) - 1)

\* The runs [s, e] of at least 3 consecutive content lines of an outer box:
\* lines with one border character and one indentation, not extensible.
StartsWith(l, c) == lstrip(l) # <<>> /\ lstrip(l)[1] = c
OuterRuns(ls) ==
    {r \in (1..Len(ls)) \X (1..Len(ls)) :
        /\ r[2] - r[1] + 1 >= 3
        /\ \E c \in {LV, "|"} :
               /\ \A k \in r[1]..r[2] :
                      StartsWith(ls[k], c) /\ LeadingOf(ls[k]) = LeadingOf(ls[r[1]])
               /\ r[1] = 1 \/ ~StartsWith(ls[r[1] - 1], c)
               /\ r[2] = Len(ls) \/ ~StartsWith(ls[r[2] + 1], c)}

\* C9 (nested boxes are aligned): for every inner group of an inner diagram
\* of an outer run whose repaired lines fit between the outer borders, the
\* result's lines of that inner group, taken between the outer borders and
\* right-trimmed, have one length.
C9_NestedAligned ==
    LET inl == In
        outl == Out
    IN  \A b \in blocks : b.repaired =>
            LET groups == GroupsOf(b, inl)
            IN  \A g \in 1..Len(groups) :
                    LET outer == FixOuter(groups[g])
                        ols == [k \in 1..Len(outer) |-> outer[k].text]
                    IN  \A r \in OuterRuns(ols) :
                            LET inner == [k \in 1..(r[2] - r[1] + 1) |->
                                             WithinBorders(ols[r[1] + k - 1])]
                                igs == split_groups(inner)
                                pos(n) == b.start + outer[r[1] + n - 1].idx
                            IN  ~FailsHeuristic(inner) =>
                                    \A ig \in 1..Len(igs) :
                                        (\A f \in 1..Len(igs[ig]) :
                                             Len(fix_group(igs[ig])[f].text)
                                                 <= Len(lstrip(ols[r[1]])) - 2)
                                        => \A j, k \in 1..Len(igs[ig]) :
                                               Len(rstrip(WithinBorders(outl[pos(igs[ig][j].idx)])))
                                                   = Len(rstrip(WithinBorders(outl[pos(igs[ig][k].idx)])))

\* The maximal runs [s, e] of consecutive border-starting lines of a block.
MaximalRuns(block) ==
    {r \in (1..Len(block)) \X (1..Len(block)) :
        /\ r[1] <= r[2]
        /\ \A k \in r[1]..r[2] : BorderStart(block[k])
        /\ r[1] = 1 \/ ~BorderStart(block[r[1] - 1])
        /\ r[2] = Len(block) \/ ~BorderStart(block[r[2] + 1])}

\* The lines a line of a group may be changed to.
AltLines == TwoGroupLines \cup Separators

\* C8 (groups are independent): the groups of a repaired block are its
\* maximal runs of border-starting lines; a line of no run is returned
\* unchanged; and with any one line of a run changed (the block still
\* qualifying), the lines of every other run are repaired to what they are
\* repaired to now.
C8_GroupsIndependent ==
    pc = "done" =>
        LET inl == In
            outl == Out
        IN  \A b \in blocks : b.repaired =>
                LET block == BlockLines(inl, b.start, b.close)
                    groups == split_groups(block)
                    runs == MaximalRuns(block)
                IN  /\ {<<groups[g][1].idx, groups[g][Len(groups[g])].idx>> :
                           g \in 1..Len(groups)} = runs
                    /\ \A g \in 1..Len(groups) : \A k \in 1..Len(groups[g]) :
                           groups[g][k].idx = groups[g][1].idx + k - 1
                    /\ \A p \in 1..Len(block) :
                           (\A r \in runs : p < r[1] \/ p > r[2])
                               => outl[b.start + p] = block[p]
                    /\ \A r \in runs : \A p \in r[1]..r[2] : \A alt \in AltLines :
                           LET changed == [block EXCEPT ![p] = alt]
                               repaired == Repaired(changed)
                           IN  ~FailsHeuristic(changed) =>
                                   \A q \in runs \ {r} : \A m \in q[1]..q[2] :
                                       repaired[m] = outl[b.start + m]

\* A returned document with two groups repaired to different widths.
C8_Witness ==
    /\ pc = "done" /\ pass = 1
    /\ \E b \in blocks :
           /\ b.repaired
           /\ LET runs == MaximalRuns(BlockLines(In, b.start, b.close))
              IN  \E r, q \in runs :
                      /\ r # q
                      /\ Out[b.start + r[1]] # In[b.start + r[1]]
                      /\ Out[b.start + q[1]] # In[b.start + q[1]]
                      /\ Len(Out[b.start + r[1]]) # Len(Out[b.start + q[1]])

\* C11 (totality): fix_diagrams never leaves by an exception; the recursion
\* _fix_group -> _fix_nested_in_group -> _fix_group stays within the depth the
\* call stack allows for every input.
C11_Total == pc # "raised"

\* With --check no path changes what it names, at any point of the run.
CheckWritesNothing == (cli_pc # "idle" /\ args.check) => fs = fs0

\* The exit status of a --check run: 2 when a listed path cannot be read,
\* else 1 when the fixed text of a listed file differs from the file, else 0.
CheckExitStatus ==
    (cli_pc = "exited" /\ args.check) =>
        LET listed == {args.files[k] : k \in 1..Len(args.files)}
        IN  returncode =
                IF \E n \in listed : fs0[n].kind # "file" THEN 2
                ELSE IF \E n \in listed :
                            Fixed(fs0[n].data, args.mdtable).text # fs0[n].data
                     THEN 1
                ELSE 0

\* The --check run that follows a plain in-place run exits with 0.
RecheckClean == (cli_pc = "exited" /\ run = 2) => returncode = 0

\* C12 (check mode): with --check no file is written and no .bak is created,
\* the exit status is 2 for a missing or unreadable file, 1 when a file would
\* change and 0 otherwise, and --check after a plain in-place run exits 0.
C12_CheckMode == CheckWritesNothing /\ CheckExitStatus /\ RecheckClean

\* The cells of the rows of table b (0 = no such cell), trimmed, as the text
\* inl gives them.
CellLen(inl, b, j, k) ==
    LET cells == parse_table_cells(inl[b.start + j - 1])
    IN  IF k <= Len(cells) THEN Len(cells[k]) ELSE 0

NumCols(inl, b) ==
    SeqMax([j \in 1..(b.close - b.start) |->
               Len(parse_table_cells(inl[b.start + j - 1]))])

\* max(3, longest trimmed cell of column k over the non-separator rows).
ColumnWidth(inl, b, k) ==
    LET w == SeqMax([j \in 1..(b.close - b.start) |->
                        IF j = b.sep THEN 0 ELSE CellLen(inl, b, j, k)])
    IN  IF w > 3 THEN w ELSE 3

\* The widths a row is rendered with: the lengths of the pieces between its
\* pipes, less the space on either side.
RenderedWidths(row) ==
    LET pieces == split_on(row, PIPE)
    IN  [k \in 1..(Len(pieces) - 2) |-> Len(pieces[k + 1]) - 2]

\* Row j of table b is rendered with the column widths of the table.
RowRendered(inl, outl, b, j) ==
    RenderedWidths(outl[b.start + j - 1])
        = [k \in 1..NumCols(inl, b) |-> ColumnWidth(inl, b, k)]

ContentRowsRendered ==
    pc = "done" =>
        \A b \in blocks : b.rebuilt =>
            \A j \in 1..(b.close - b.start) : j # b.sep => RowRendered(In, Out, b, j)

SeparatorRendered ==
    pc = "done" => \A b \in blocks : b.rebuilt => RowRendered(In, Out, b, b.sep)

\* The rebuilt separator keeps the alignment marker of every column the
\* separator row had.
AlignmentKept ==
    pc = "done" =>
        \A b \in blocks : b.rebuilt =>
            LET before == parse_table_cells(In[b.start + b.sep - 1])
                after == parse_table_cells(Out[b.start + b.sep - 1])
            IN  \A k \in 1..Len(before) :
                    detect_alignment(after[k]) = detect_alignment(before[k])

\* C13 (tables): in every processed table each row, the rebuilt separator row
\* included, is rendered with width max(3, longest trimmed cell) for column k,
\* and the separator keeps each column's alignment marker.
C13_ColumnWidths == ContentRowsRendered /\ SeparatorRendered /\ AlignmentKept

\* C14 (indentation): in the result, every line of a repaired group has the
\* leading whitespace of the argument's line, followed by the argument's left
\* border character.
C14_IndentationPreserved ==
    LET inl == In
        outl == Out
    IN  \A b \in blocks : b.repaired =>
            LET groups == GroupsOf(b, inl)
            IN  \A g \in 1..Len(groups) : \A k \in 1..Len(groups[g]) :
                    LET l == groups[g][k].text
                        o == outl[b.start + groups[g][k].idx]
                    IN  /\ LeadingOf(o) = LeadingOf(l)
                        /\ lstrip(o) # <<>>
                        /\ lstrip(o)[1] = lstrip(l)[1]

\* The position of the last interior junction character of a rule line: after
\* its left border, 0 when there is none.
LastInteriorJunction(l) ==
    LET first == Len(LeadingOf(l)) + 1
        at == {k \in (first + 1)..Len(l) : l[k] \in JUNCTION_CHARS}
    IN  IF at = {} THEN 0 ELSE CHOOSE k \in at : \A m \in at : m <= k

\* The rule lines of the repaired groups, each with the result's line.
RuleLinePairs ==
    LET inl == In
        outl == Out
    IN  UNION {UNION {{<<GroupsOf(b, inl)[g][k].text,
                        outl[b.start + GroupsOf(b, inl)[g][k].idx]>> :
                          k \in {n \in 1..Len(GroupsOf(b, inl)[g]) :
                                   lstrip(GroupsOf(b, inl)[g][n].text)[1] \in HRULE_LEFT}} :
                      g \in 1..Len(GroupsOf(b, inl))} :
               b \in {x \in blocks : x.repaired}}

\* Every character up to and including the last interior junction keeps its
\* position.
JunctionPrefixKept ==
    \A p \in RuleLinePairs :
        LET n == LastInteriorJunction(p[1])
        IN  Len(p[2]) >= n /\ SubSeq(p[2], 1, n) = SubSeq(p[1], 1, n)

\* The non-whitespace, non-fill characters of the rule line are all in the
\* result's line, in order.
RuleTextKept == \A p \in RuleLinePairs : IsSubsequence(Kept(p[1]), Kept(p[2]))

\* C15 (horizontal rules): fixing a rule line keeps every character up to and
\* including its last interior junction in place and removes or replaces no
\* interior non-fill character, before or after a junction.
C15_RulePreserved == JunctionPrefixKept /\ RuleTextKept

\* The lines of group g of block b as the outer fix leaves them, and as the
\* result has them.
OuterFixed(b, inl, g) ==
    LET outer == FixOuter(GroupsOf(b, inl)[g])
    IN  [k \in 1..Len(outer) |-> outer[k].text]

Final(b, inl, outl, g) ==
    [k \in 1..Len(GroupsOf(b, inl)[g]) |-> outl[b.start + GroupsOf(b, inl)[g][k].idx]]

\* The positions in group lines ols (the outer fix's) of the outer lines whose
\* inner line, repaired, would be longer than the outer width less two.
Overflowing(ols) ==
    UNION {LET inner == [k \in 1..(r[2] - r[1] + 1) |-> WithinBorders(ols[r[1] + k - 1])]
               igs == split_groups(inner)
           IN  IF FailsHeuristic(inner) THEN {}
               ELSE UNION {{r[1] + igs[ig][f].idx - 1 :
                               f \in {n \in 1..Len(igs[ig]) :
                                        Len(fix_group(igs[ig])[n].text)
                                            > Len(lstrip(ols[r[1]])) - 2}} :
                           ig \in 1..Len(igs)} :
           r \in OuterRuns(ols)}

Rewrapped(ol, t) ==
    LET c == lstrip(ol)[1]
        w == Len(lstrip(ol)) - 2
    IN  LeadingOf(ol) \o <<c>> \o t \o Repeat(SP, w - Len(t)) \o <<RIGHT_BORDER(c)>>

\* The lines of a group after nested repair as the specification words it,
\* given the lines ols the outer fix produced: in every run of 3 or more
\* outer content lines whose content between the outer borders is a diagram,
\* each line of an inner group whose repaired text fits is rewrapped.
ExpectedNested(ols) ==
    [k \in 1..Len(ols) |->
        LET runs == {r \in OuterRuns(ols) : r[1] <= k /\ k <= r[2]}
        IN  IF runs = {} THEN ols[k]
            ELSE LET r == CHOOSE x \in runs : TRUE
                     inner == [n \in 1..(r[2] - r[1] + 1) |->
                                  WithinBorders(ols[r[1] + n - 1])]
                     igs == split_groups(inner)
                     at == {p \in {<<ig, f>> : ig \in 1..Len(igs), f \in 1..Len(inner)} :
                               /\ p[2] <= Len(igs[p[1]])
                               /\ igs[p[1]][p[2]].idx = k - r[1] + 1}
                 IN  IF FailsHeuristic(inner) \/ at = {} THEN ols[k]
                     ELSE LET p == CHOOSE x \in at : TRUE
                              t == fix_group(igs[p[1]])[p[2]].text
                          IN  IF Len(t) > Len(lstrip(ols[k])) - 2 THEN ols[k]
                              ELSE Rewrapped(ols[k], t)]

\* C17 (strip and re-attach): in every group whose lines have one
\* indentation, the result is the outer fix's lines with the inner content
\* taken between the outer border characters and rewrapped in them, whatever
\* the indentation.
C17_StripAndReattach ==
    LET inl == In
        outl == Out
    IN  \A b \in blocks : b.repaired =>
            \A g \in 1..Len(GroupsOf(b, inl)) :
                LET ols == OuterFixed(b, inl, g)
                IN  (\A k \in 1..Len(ols) : LeadingOf(ols[k]) = LeadingOf(ols[1]))
                        => Final(b, inl, outl, g) = ExpectedNested(ols)

\* The delimiter a fence line is made of: its first three characters.
FenceKind(line) == SubSeq(strip(line), 1, 3)

\* C18 (matching delimiters): every block the driver closes is closed by a
\* fence line of the kind that opened it; a fence line of the other kind
\* inside an open block does not close it.
C18_MatchingFences ==
    pass = 1 => \A b \in blocks : FenceKind(In[b.close]) = FenceKind(In[b.start])

\* The lines ls of a group are well formed: one length, and each line ends
\* with the right border that matches its left border.
WellFormed(ls) ==
    \A k \in 1..Len(ls) :
        /\ Len(ls[k]) = Len(ls[1])
        /\ ls[k][Len(ls[k])] = RIGHT_BORDER(lstrip(ls[k])[1])

\* C19 (fixed point): a group of a repaired block whose lines are well formed,
\* and which holds no inner box that nested repair would have to rewrite, is in
\* the result as it is in the argument.
C19_WellFormedFixedPoint ==
    LET inl == In
        outl == Out
    IN  \A b \in blocks : b.repaired =>
            \A g \in 1..Len(GroupsOf(b, inl)) :
                LET ls == [k \in 1..Len(GroupsOf(b, inl)[g]) |-> GroupsOf(b, inl)[g][k].text]
                IN  (WellFormed(ls) /\ ExpectedNested(ls) = ls)
                        => Final(b, inl, outl, g) = ls

====
